---- MODULE Spec2Model ----
(***************************************************************************)
(* Ingestion pipeline of the web RAG engine: the job ledger               *)
(* (models.py), the submission and status endpoints (main.py) and the     *)
(* Celery task process_url (worker.py), with its chunker.                 *)
(***************************************************************************)
EXTENDS Integers, Sequences, FiniteSets, TLC

\* ------------------------------------------------------------------ bounds
MaxJobs == 2          \* submissions (POST /ingest-url) in one behaviour
NumWorkers == 2       \* Celery worker processes
MaxDeliveries == 2    \* deliveries of queue messages in one behaviour
MaxLen == 1000        \* longest extracted text given to the chunker alone

\* ------------------------------------------------- program constants
W == 500              \* window:  content[i:i + 500]
S == 400              \* stride:  range(0, len(content), 400)
NL == 0               \* the "\n" of "\n".join(texts); other characters are 1..7

Min(a, b) == IF a < b THEN a ELSE b
Max(a, b) == IF a > b THEN a ELSE b

\* ----------------------------------------------------------------- chunker
\* range() that leaves out a last, shorter stride
PyRangeFloor(start, stop, step) ==
    IF stop <= start THEN << >>
    ELSE [k \in 1..((stop - start) \div step) |-> start + (k - 1) * step]

\* Python range(start, stop, step) for step > 0, as the sequence of its values
PyRange(start, stop, step) ==
    IF stop <= start THEN << >>
    ELSE [k \in 1..((stop - start + step - 1) \div step) |-> start + (k - 1) * step]

\* a slice that takes the character at the end index too
PySliceInclusive(s, i, j) ==
    IF i >= Len(s) THEN << >>
    ELSE SubSeq(s, i + 1, Min(j + 1, Len(s)))

\* Python s[i:j] for 0 <= i <= j (the end is clamped to len(s))
PySlice(s, i, j) ==
    IF i >= Len(s) THEN << >>
    ELSE SubSeq(s, i + 1, Min(j, Len(s)))

\* chunks whose window is 50 characters shorter than W
ChunksNarrow(content) ==
    LET offs == PyRange(0, Len(content), S)
    IN  [k \in 1..Len(offs) |-> PySlice(content, offs[k], offs[k] + W - 50)]

\* chunks = [content[i:i + 500] for i in range(0, len(content), 400)]
Chunks(content) ==
    LET offs == PyRange(0, Len(content), S)
    IN  [k \in 1..Len(offs) |-> PySlice(content, offs[k], offs[k] + W)]

\* -------------------------------------------------------------- extraction
\* content = "\n".join(texts), texts the paragraph texts of the page
RECURSIVE Join(_)
Join(texts) ==
    IF texts = << >> THEN << >>
    ELSE IF Len(texts) = 1 THEN texts[1]
    ELSE texts[1] \o <<NL>> \o Join(Tail(texts))

Para(n) == [i \in 1..n |-> (i % 7) + 1]

\* pages a fetch can return, each as the texts of its <p> elements:
\* no paragraph at all, one short paragraph, two paragraphs of 450 characters
Pages == { << >>, <<Para(3)>>, <<Para(300), Para(149)>> }

\* URLs a client submits; they are opaque to the pipeline, so a submission
\* takes a URL submitted before or the first one not submitted yet
Urls == <<"u1", "u2">>

\* str(e) of what requests.get / raise_for_status raise
FetchErrors == {"Read timed out. (read timeout=10)", "404 Client Error: Not Found for url"}
EncodeError == "encode failed"
AddError == "index write failed"
DuplicateError == "ID already exists"

\* ------------------------------------------------------------------- state
JobIds == 1..MaxJobs
Requests == 1..MaxJobs
Workers == 1..NumWorkers

None == "None"        \* NULL of the nullable error_message column
NoJob == 0
NoExc == [step |-> "none", msg |-> None]

VARIABLES
    db,           \* ledger table ingestion_jobs: job id -> row
    queue,        \* broker: the (job_id, url) messages waiting for a worker
    delivered,    \* job id -> number of times its message was delivered
    collection,   \* Chroma collection web_content: chunk id -> entry
    dupPolicy,    \* what collection.add does with an id that exists: keep the
                  \* old entry silently ("ignore") or raise ("raise"); which
                  \* one depends on the installed chromadb, fixed per run
    req,          \* per request of POST /ingest-url: its position and locals
    task,         \* per worker: position and locals of its process_url call
    escaped,      \* workers whose task ended by an exception leaving it
    cText, cOut, cDone,  \* the chunker run on its own: input, output, ran
    qry           \* a request of POST /query: its position and locals

vars == <<db, queue, delivered, collection, dupPolicy, req, task, escaped,
          cText, cOut, cDone, qry>>
pipeVars == <<db, queue, delivered, collection, dupPolicy, req, task, escaped>>
chunkVars == <<cText, cOut, cDone>>
queryVars == <<qry>>

IdleTask == [pc |-> "idle", job_id |-> NoJob, url |-> "", content |-> << >>,
             exc |-> NoExc, nFetch |-> 0, written |-> {}]
NoQuery == [pc |-> "idle", query |-> "", searched |-> FALSE, results |-> << >>,
            source_urls |-> << >>, llm_calls |-> 0,
            response |-> [code |-> 0, answer |-> None, source_urls |-> << >>,
                          detail |-> None]]
NewReq == [pc |-> "start", url |-> "", new_job |-> NoJob, status |-> "",
           response |-> [job_id |-> NoJob, status |-> ""]]

PipeInit ==
    /\ db = << >>
    /\ queue = {}
    /\ delivered = [j \in JobIds |-> 0]
    /\ collection = << >>
    /\ dupPolicy \in {"ignore", "raise"}
    /\ req = [r \in Requests |-> NewReq]
    /\ task = [w \in Workers |-> IdleTask]
    /\ escaped = {}

Init ==
    /\ PipeInit
    /\ cText = << >> /\ cOut = << >> /\ cDone = FALSE
    /\ qry = NoQuery

\* ---------------------------------------------------- main.py: submission
\* id = Column(UUID, default=uuid.uuid4): an id no row has yet
NewId == CHOOSE i \in JobIds \ DOMAIN db : \A k \in JobIds \ DOMAIN db : i <= k

RECURSIVE Sum(_, _)
Sum(f, D) == IF D = {} THEN 0
             ELSE LET d == CHOOSE x \in D : TRUE IN f[d] + Sum(f, D \ {d})

\* deliveries made so far, and the deliveries still owed to recorded jobs and
\* to queued messages that no worker has received yet
Deliveries == Sum(delivered, DOMAIN delivered)
Owed == Cardinality({j \in DOMAIN delivered :
                        /\ delivered[j] = 0
                        /\ j \in DOMAIN db \/ \E m \in queue : m.job_id = j})

\* a behaviour has at most MaxDeliveries deliveries: a submission or a repeated
\* delivery is taken only while there is room for it
Room(extra) == Deliveries + Owed + extra <= MaxDeliveries

\* a submission that goes on to signal the work without its commit
ingest_commit_unsaved(r) ==
    /\ req[r].pc = "start"
    /\ \A q \in Requests : q < r => req[q].pc # "start"
    /\ Room(1)
    /\ db' = db
    /\ req' = [req EXCEPT ![r].pc = "delay", ![r].url = Urls[1],
                          ![r].new_job = NewId, ![r].status = "PENDING"]
    /\ UNCHANGED <<queue, delivered, collection, dupPolicy, task, escaped>>
    /\ UNCHANGED <<chunkVars, queryVars>>

\* new_job = IngestionJob(url=...); db.add; db.commit; db.refresh
ingest_commit(r) ==
    /\ req[r].pc = "start"
    /\ \A q \in Requests : q < r => req[q].pc # "start"
    /\ Room(1)
    /\ \E i \in DOMAIN Urls : LET u == Urls[i] IN
         /\ \A k \in 1..(i - 1) : \E j \in DOMAIN db : db[j].url = Urls[k]
         /\ db' = db @@ (NewId :> [url |-> u, status |-> "PENDING",
                                   error_message |-> None])
         /\ req' = [req EXCEPT ![r].pc = "delay", ![r].url = u,
                               ![r].new_job = NewId, ![r].status = "PENDING"]
    /\ UNCHANGED <<queue, delivered, collection, dupPolicy, task, escaped>>
    /\ UNCHANGED <<chunkVars, queryVars>>

\* process_url.delay(str(new_job.id), str(request.url));
\* return {"job_id": new_job.id, "status": new_job.status}
ingest_delay(r) ==
    /\ req[r].pc = "delay"
    /\ queue' = queue \cup {[job_id |-> req[r].new_job, url |-> req[r].url]}
    /\ req' = [req EXCEPT ![r].pc = "done",
                          ![r].response = [job_id |-> req[r].new_job,
                                           status |-> req[r].status]]
    /\ UNCHANGED <<db, delivered, collection, dupPolicy, task, escaped>>
    /\ UNCHANGED <<chunkVars, queryVars>>

\* GET /ingest-url/status/{job_id}: the status, or 404 when no row has the id
get_ingestion_status(job_id) ==
    IF job_id \in DOMAIN db THEN db[job_id].status ELSE "404"

\* ------------------------------------------------------ broker and workers
\* The free worker process that takes the next message (the processes are
\* interchangeable; the lowest free one stands for any of them).
FreeWorker == CHOOSE w \in Workers :
                 /\ task[w].pc = "idle"
                 /\ \A v \in Workers : task[v].pc = "idle" => w <= v

\* The broker hands message m to a free worker.  At-least-once delivery: the
\* message leaves the broker, or stays to be delivered again.
Deliver(m) ==
    /\ m \in queue
    /\ \E w \in Workers : task[w].pc = "idle"
    /\ delivered[m.job_id] = 0 \/ Room(1)
    /\ task' = [task EXCEPT ![FreeWorker] =
                   [IdleTask EXCEPT !.pc = "begin", !.job_id = m.job_id,
                                    !.url = m.url]]
    /\ delivered' = [delivered EXCEPT ![m.job_id] = @ + 1]
    /\ \/ queue' = queue \ {m}
       \/ /\ IF delivered[m.job_id] = 0 THEN Room(1) ELSE Room(2)
          /\ queue' = queue
    /\ UNCHANGED <<db, collection, dupPolicy, req, escaped>>
    /\ UNCHANGED <<chunkVars, queryVars>>

\* a try block that ends before the embedding and indexing step
InTryShort(pc) == pc \in {"begin", "fetch"}

\* steps of process_url inside its try block (worker.py 28-67)
InTry(pc) == pc \in {"begin", "fetch", "add", "complete"}

\* An exception e raised by worker w whose locals are t: inside the try block
\* control goes to the except clause, outside it the exception leaves the task.
Raise(w, t, e) ==
    IF InTry(t.pc)
    THEN /\ task' = [task EXCEPT ![w] = [t EXCEPT !.pc = "except", !.exc = e]]
         /\ escaped' = escaped
    ELSE /\ task' = [task EXCEPT ![w] = IdleTask]
         /\ escaped' = escaped \cup {w}

\* a start that creates the row it does not find
BeginCreate(w) ==
    /\ task[w].pc = "begin"
    /\ db' = IF task[w].job_id \in DOMAIN db
             THEN [db EXCEPT ![task[w].job_id].status = "PROCESSING"]
             ELSE db @@ (task[w].job_id :> [url |-> task[w].url,
                                            status |-> "PROCESSING",
                                            error_message |-> None])
    /\ task' = [task EXCEPT ![w].pc = "fetch"]
    /\ UNCHANGED <<queue, delivered, collection, dupPolicy, req, escaped>>
    /\ UNCHANGED <<chunkVars, queryVars>>

\* a start that goes on to the fetch without committing PROCESSING
BeginNoCommit(w) ==
    /\ task[w].pc = "begin"
    /\ db' = db
    /\ task' = IF task[w].job_id \in DOMAIN db
               THEN [task EXCEPT ![w].pc = "fetch"]
               ELSE [task EXCEPT ![w] = IdleTask]
    /\ UNCHANGED <<queue, delivered, collection, dupPolicy, req, escaped>>
    /\ UNCHANGED <<chunkVars, queryVars>>

\* 1. job = query.first(); if not job: return; job.status = PROCESSING; commit
Begin(w) ==
    /\ task[w].pc = "begin"
    /\ IF task[w].job_id \in DOMAIN db
       THEN /\ db' = [db EXCEPT ![task[w].job_id].status = "PROCESSING"]
            /\ task' = [task EXCEPT ![w].pc = "fetch"]
       ELSE /\ db' = db
            /\ task' = [task EXCEPT ![w] = IdleTask]
    /\ UNCHANGED <<queue, delivered, collection, dupPolicy, req, escaped>>
    /\ UNCHANGED <<chunkVars, queryVars>>

\* 2.-3. requests.get(url, timeout=10); raise_for_status(); extract the <p>
\* texts; chunk.  Then "if chunks:" selects the embedding branch.
Fetch(w) ==
    /\ task[w].pc = "fetch"
    /\ LET t == [task[w] EXCEPT !.nFetch = @ + 1]
       IN  \/ \E page \in Pages :
                /\ task' = [task EXCEPT ![w] =
                      [t EXCEPT !.content = Join(page),
                                !.pc = IF Chunks(Join(page)) # << >>
                                       THEN "add" ELSE "complete"]]
                /\ escaped' = escaped
           \/ \E msg \in FetchErrors :
                Raise(w, t, [step |-> "fetch", msg |-> msg])
    /\ UNCHANGED <<db, queue, delivered, collection, dupPolicy, req>>
    /\ UNCHANGED <<chunkVars, queryVars>>

\* str(job id): the 32 hexadecimal digits of the UUID in groups of 8-4-4-4-12
\* joined by "-"; job j of the model is the UUID of integer value j
HexDigits == <<"0", "1", "2", "3", "4", "5", "6", "7", "8", "9",
               "a", "b", "c", "d", "e", "f">>
Pow16(e) == IF e = 0 THEN 1 ELSE IF e = 1 THEN 16 ELSE IF e = 2 THEN 256
            ELSE IF e = 3 THEN 4096 ELSE IF e = 4 THEN 65536
            ELSE IF e = 5 THEN 1048576 ELSE 16777216
Hex32(j) == [k \in 1..32 |->
               IF 32 - k > 6 THEN "0"
               ELSE HexDigits[((j \div Pow16(32 - k)) % 16) + 1]]
UuidFormat(j) ==
    LET h == Hex32(j)
    IN  SubSeq(h, 1, 8) \o <<"-">> \o SubSeq(h, 9, 12) \o <<"-">>
        \o SubSeq(h, 13, 16) \o <<"-">> \o SubSeq(h, 17, 20) \o <<"-">>
        \o SubSeq(h, 21, 32)
\* the strings of the ids a behaviour can hold, formatted once
UuidStrs == [j \in 1..(MaxJobs + 1) |-> UuidFormat(j)]
UuidStr(j) == UuidStrs[j]

\* str(i) of an index i >= 0, in decimal
RECURSIVE Decimal(_)
Decimal(i) == IF i < 10 THEN <<HexDigits[i + 1]>>
              ELSE Decimal(i \div 10) \o <<HexDigits[(i % 10) + 1]>>

\* an id made of the chunk index alone
ChunkIdNoJob(job_id, i) == Decimal(i)

\* ids = [f"{job_id}_{i}" for i, _ in enumerate(chunks)]
ChunkId(job_id, i) == UuidStr(job_id) \o <<"_">> \o Decimal(i)

\* ids of the first k chunks of a job
Ids(job_id, k) == {ChunkId(job_id, i) : i \in 0..(k - 1)}

\* the collection after add() stored the first k of the chunks: an id the
\* collection already has keeps its entry, add() never replaces
Put(col, job_id, url, chunks, k) ==
    [id \in DOMAIN col \cup Ids(job_id, k) |->
        IF id \in DOMAIN col THEN col[id]
        ELSE LET i == CHOOSE i \in 0..(k - 1) : ChunkId(job_id, i) = id
             IN  [document |-> chunks[i + 1], url |-> url]]

\* 4. embeddings = embedding_model.encode(chunks), which may raise; then
\* collection.add(embeddings, documents, metadatas, ids): stores all, or
\* rejects ids that exist (dupPolicy "raise"), or fails part-way
Add(w) ==
    /\ task[w].pc = "add"
    /\ LET chunks == Chunks(task[w].content)
           n == Len(chunks)
           ids == Ids(task[w].job_id, n)
           dup == ids \cap DOMAIN collection # {}
           put(k) == Put(collection, task[w].job_id, task[w].url, chunks, k)
           t(k) == [task[w] EXCEPT !.written =
                       Ids(task[w].job_id, k) \ DOMAIN collection]
       IN  \/ /\ collection' = collection
              /\ Raise(w, task[w], [step |-> "embed", msg |-> EncodeError])
           \/ /\ dupPolicy = "raise" /\ dup
              /\ collection' = collection
              /\ Raise(w, task[w], [step |-> "add", msg |-> DuplicateError])
           \/ /\ ~(dupPolicy = "raise" /\ dup)
              /\ \/ /\ collection' = put(n)
                    /\ task' = [task EXCEPT ![w] = [t(n) EXCEPT !.pc = "complete"]]
                    /\ escaped' = escaped
                 \/ \E k \in 0..(n - 1) :
                      /\ collection' = put(k)
                      /\ Raise(w, t(k), [step |-> "add", msg |-> AddError])
    /\ UNCHANGED <<db, queue, delivered, dupPolicy, req>>
    /\ UNCHANGED <<chunkVars, queryVars>>

\* a completion that never commits the status
CompleteNoCommit(w) ==
    /\ task[w].pc = "complete"
    /\ task' = [task EXCEPT ![w] = IdleTask]
    /\ UNCHANGED <<db, queue, delivered, collection, dupPolicy, req, escaped>>
    /\ UNCHANGED <<chunkVars, queryVars>>

\* a completion whose UPDATE is not restricted to the row of its job
CompleteAll(w) ==
    /\ task[w].pc = "complete"
    /\ db' = [j \in DOMAIN db |->
                IF j = task[w].job_id \/ db[j].status = "PROCESSING"
                THEN [db[j] EXCEPT !.status = "COMPLETED"] ELSE db[j]]
    /\ task' = [task EXCEPT ![w] = IdleTask]
    /\ UNCHANGED <<queue, delivered, collection, dupPolicy, req, escaped>>
    /\ UNCHANGED <<chunkVars, queryVars>>

\* 5. job.status = JobStatus.COMPLETED; db.commit(); finally: db.close()
Complete(w) ==
    /\ task[w].pc = "complete"
    /\ db' = [db EXCEPT ![task[w].job_id].status = "COMPLETED"]
    /\ task' = [task EXCEPT ![w] = IdleTask]
    /\ UNCHANGED <<queue, delivered, collection, dupPolicy, req, escaped>>
    /\ UNCHANGED <<chunkVars, queryVars>>

\* an except clause that marks the job FAILED and drops the error text
ExceptNoMessage(w) ==
    /\ task[w].pc = "except"
    /\ db' = IF task[w].job_id \in DOMAIN db
             THEN [db EXCEPT ![task[w].job_id].status = "FAILED"]
             ELSE db
    /\ task' = [task EXCEPT ![w] = IdleTask]
    /\ UNCHANGED <<queue, delivered, collection, dupPolicy, req, escaped>>
    /\ UNCHANGED <<chunkVars, queryVars>>

\* except Exception as e: job = query.first(); if job: status = FAILED;
\* error_message = str(e); commit.  finally: db.close()
Except(w) ==
    /\ task[w].pc = "except"
    /\ db' = IF task[w].job_id \in DOMAIN db
             THEN [db EXCEPT ![task[w].job_id].status = "FAILED",
                             ![task[w].job_id].error_message = task[w].exc.msg]
             ELSE db
    /\ task' = [task EXCEPT ![w] = IdleTask]
    /\ UNCHANGED <<queue, delivered, collection, dupPolicy, req, escaped>>
    /\ UNCHANGED <<chunkVars, queryVars>>

Next ==
    \/ \E r \in Requests : ingest_commit(r)
    \/ \E r \in Requests : ingest_delay(r)
    \/ \E m \in queue : Deliver(m)
    \/ \E w \in Workers : Begin(w)
    \/ \E w \in Workers : Fetch(w)
    \/ \E w \in Workers : Add(w)
    \/ \E w \in Workers : Complete(w)
    \/ \E w \in Workers : Except(w)

Spec == Init /\ [][Next]_vars

\* The request handler runs on after its commit, the broker delivers a waiting
\* message once a worker process is free, and a worker process that does not
\* crash runs its task to the end.
Fairness ==
    /\ \A r \in Requests : WF_vars(ingest_delay(r))
    /\ WF_vars(\E m \in queue : Deliver(m))
    /\ \A w \in Workers :
          /\ WF_vars(Begin(w)) /\ WF_vars(Fetch(w)) /\ WF_vars(Add(w))
          /\ WF_vars(Complete(w)) /\ WF_vars(Except(w))

LiveSpec == Init /\ [][Next]_vars /\ Fairness

\* The broker holds a message whose job id no ledger row has (the broker and
\* the ledger are separate stores; process_url takes any id string it is sent).
OrphanId == MaxJobs + 1

OrphanInit ==
    /\ db = << >>
    /\ queue = {[job_id |-> OrphanId, url |-> Urls[1]]}
    /\ delivered = [j \in JobIds \cup {OrphanId} |-> 0]
    /\ collection = << >>
    /\ dupPolicy \in {"ignore", "raise"}
    /\ req = [r \in Requests |-> NewReq]
    /\ task = [w \in Workers |-> IdleTask]
    /\ escaped = {}
    /\ cText = << >> /\ cOut = << >> /\ cDone = FALSE
    /\ qry = NoQuery

OrphanSpec == OrphanInit /\ [][Next]_vars

\* ------------------------------------------------- the chunker on its own
TestTexts == {Para(L) : L \in 0..MaxLen}

ChunkInit ==
    /\ PipeInit
    /\ cText \in TestTexts /\ cOut = << >> /\ cDone = FALSE
    /\ qry = NoQuery

RunChunker ==
    /\ ~cDone
    /\ cOut' = Chunks(cText)
    /\ cDone' = TRUE
    /\ UNCHANGED <<cText>>
    /\ UNCHANGED <<pipeVars, queryVars>>

ChunkNext == RunChunker

ChunkSpec == ChunkInit /\ [][ChunkNext]_vars

\* ------------------------------------------------ main.py: the query path
NResults == 5         \* n_results=5
FixedAnswer == "I couldn't find any relevant information."
Queries == {"What is the capital?"}
Answers == {"generated answer"}          \* response.text of the generator
EncodeFailure == "Internal Server Error" \* an exception outside try: plain 500
GenerateFailure == "Failed to generate answer"

\* collection.query(query_embeddings, n_results): the ids of the nearest
\* entries, nearest first; the distance is opaque, so any order of any
\* min(n_results, count) entries
Rankings(col) ==
    LET ids == DOMAIN col
        n == Min(NResults, Cardinality(ids))
    IN  {r \in [1..n -> ids] : \A a, b \in 1..n : a # b => r[a] # r[b]}

\* results['documents'][0] and the urls of results['metadatas'][0]
Documents(col, r) == [k \in 1..Len(r) |-> col[r[k]].document]
MetaUrls(col, r) == [k \in 1..Len(r) |-> col[r[k]].url]

\* the url of every result in result order, duplicates kept
SourceUrlsRaw(col, r) == {MetaUrls(col, r)}

\* list(set(meta['url'] for meta in results['metadatas'][0])): the distinct
\* urls, in whatever order the set yields them
SourceUrls(col, r) ==
    LET urls == {MetaUrls(col, r)[k] : k \in 1..Len(r)}
        n == Cardinality(urls)
    IN  {l \in [1..n -> urls] : \A a, b \in 1..n : a # b => l[a] # l[b]}

\* a test that never takes the early return
ShortCircuitNever(documents) == FALSE

\* if not results['documents'] or not results['documents'][0]  (and the
\* second test, if not context_chunks, of the same list)
ShortCircuit(documents) == documents = << >>

Response(code, answer, source_urls, detail) ==
    [code |-> code, answer |-> answer, source_urls |-> source_urls,
     detail |-> detail]

\* 1.-2. encode the query, search the collection, return early on no result,
\* collect the source urls, build the prompt (main.py 86-117)
query_search ==
    /\ qry.pc = "start"
    /\ \/ qry' = [qry EXCEPT !.pc = "done",
                     !.response = Response(500, None, << >>, EncodeFailure)]
       \/ \E r \in Rankings(collection) :
            IF ShortCircuit(Documents(collection, r))
            THEN qry' = [qry EXCEPT !.pc = "done", !.searched = TRUE,
                            !.results = r,
                            !.response = Response(200, FixedAnswer, << >>, None)]
            ELSE \E l \in SourceUrls(collection, r) :
                   qry' = [qry EXCEPT !.pc = "generate", !.searched = TRUE,
                              !.results = r, !.source_urls = l]
    /\ UNCHANGED <<pipeVars, chunkVars>>

\* 4. try: response = llm.generate_content(prompt); return answer and
\* source_urls; except: raise HTTPException(500)  (main.py 119-124)
query_generate ==
    /\ qry.pc = "generate"
    /\ \/ \E a \in Answers :
            qry' = [qry EXCEPT !.pc = "done", !.llm_calls = @ + 1,
                       !.response = Response(200, a, qry.source_urls, None)]
       \/ qry' = [qry EXCEPT !.pc = "done", !.llm_calls = @ + 1,
                     !.response = Response(500, None, << >>, GenerateFailure)]
    /\ UNCHANGED <<pipeVars, chunkVars>>

\* the collection after jobs 1..n each stored all chunks of its page
RECURSIVE Indexed(_, _, _)
Indexed(pg, ui, n) ==
    IF n = 0 THEN << >>
    ELSE LET chunks == Chunks(Join(pg[n]))
         IN  Put(Indexed(pg, ui, n - 1), n, Urls[ui[n]], chunks, Len(chunks))

\* a query arrives when n jobs have been ingested and are COMPLETED
QueryInit ==
    /\ \E n \in 0..Min(MaxJobs, MaxDeliveries) :
       \E pg \in [1..n -> Pages] : \E ui \in [1..n -> DOMAIN Urls] :
         /\ \A j \in 1..n : \A k \in 1..(ui[j] - 1) : \E i \in 1..(j - 1) : ui[i] = k
         /\ db = [j \in 1..n |-> [url |-> Urls[ui[j]], status |-> "COMPLETED",
                                  error_message |-> None]]
         /\ collection = Indexed(pg, ui, n)
         /\ delivered = [j \in JobIds |-> IF j <= n THEN 1 ELSE 0]
         /\ req = [r \in Requests |->
                     IF r <= n
                     THEN [pc |-> "done", url |-> Urls[ui[r]], new_job |-> r,
                           status |-> "PENDING",
                           response |-> [job_id |-> r, status |-> "PENDING"]]
                     ELSE NewReq]
    /\ queue = {}
    /\ dupPolicy \in {"ignore", "raise"}
    /\ task = [w \in Workers |-> IdleTask]
    /\ escaped = {}
    /\ cText = << >> /\ cOut = << >> /\ cDone = FALSE
    /\ \E q \in Queries : qry = [NoQuery EXCEPT !.pc = "start", !.query = q]

QueryNext == query_search \/ query_generate

QuerySpec == QueryInit /\ [][QueryNext]_vars

\* ------------------------------------------------------------- properties
Terminal == {"COMPLETED", "FAILED"}
Transitions == {<<"PENDING", "PROCESSING">>, <<"PROCESSING", "COMPLETED">>,
                <<"PROCESSING", "FAILED">>}

\* C1: the statuses a job goes through are a prefix of PENDING, PROCESSING,
\* then COMPLETED or FAILED: a row is created PENDING and every change of its
\* status is PENDING->PROCESSING, PROCESSING->COMPLETED or PROCESSING->FAILED.
LifecycleOrder ==
    [][\A j \in JobIds :
          /\ (j \notin DOMAIN db /\ j \in DOMAIN db') => db'[j].status = "PENDING"
          /\ (j \in DOMAIN db /\ db'[j].status # db[j].status)
                => <<db[j].status, db'[j].status>> \in Transitions]_vars

\* C2: COMPLETED and FAILED are terminal: no step changes the status of a job
\* that is COMPLETED or FAILED, also when its message is delivered again.
TerminalIsFinal ==
    [][\A j \in DOMAIN db :
          db[j].status \in Terminal => db'[j].status = db[j].status]_vars

\* C3: the job is in the ledger, PENDING, before its work is enqueued: every
\* queued or delivered message and every returned job_id names a ledger row,
\* and a status lookup of a returned job_id never answers 404.
RecordedBeforeSignaled ==
    /\ \A m \in queue : m.job_id \in DOMAIN db
    /\ \A w \in Workers : task[w].pc # "idle" => task[w].job_id \in DOMAIN db
    /\ \A r \in Requests :
          /\ req[r].pc = "delay" =>
                /\ req[r].new_job \in DOMAIN db
                /\ db[req[r].new_job].status = "PENDING"
          /\ req[r].pc = "done" =>
                get_ingestion_status(req[r].response.job_id) # "404"

\* a submitter holds a job_id whose message a worker has taken and begun
RecordedBeforeSignaledWitness ==
    \E r \in Requests : \E w \in Workers :
        /\ req[r].pc = "done"
        /\ task[w].job_id = req[r].response.job_id
        /\ task[w].pc = "fetch"

\* C4: error_message is present only when the status is FAILED.
ErrorOnlyWhenFailed ==
    \A j \in DOMAIN db : db[j].error_message # None => db[j].status = "FAILED"

\* C5: an execution whose fetch timed out or got a non-success response ends
\* with the job FAILED and the captured error, non-empty, as error_message;
\* it fetched once and wrote no index entry.
FetchFailureFails ==
    [][\A w \in Workers :
          (task[w].exc.step = "fetch" /\ task'[w] # task[w]) =>
             LET j == task[w].job_id IN
             /\ task[w].pc = "except"
             /\ task'[w] = IdleTask
             /\ db'[j].status = "FAILED"
             /\ db'[j].error_message = task[w].exc.msg
             /\ db'[j].error_message \notin {None, ""}
             /\ task[w].nFetch = 1
             /\ task[w].written = {}
             /\ collection' = collection]_vars

\* the id starts with str(job id) and "_"
OfJob(id, j) ==
    /\ Len(id) > 37
    /\ SubSeq(id, 1, 36) = UuidStr(j)
    /\ id[37] = "_"

\* a job is FAILED with a fetch error as its message and has no index entry
FetchFailureFailsWitness ==
    \E j \in DOMAIN db :
        /\ db[j].status = "FAILED"
        /\ db[j].error_message \in FetchErrors
        /\ \A id \in DOMAIN collection : ~OfJob(id, j)

\* C6: an exception of the fetch, extraction, chunking, embedding or indexing
\* step is caught in process_url: it never leaves the task, the next step of
\* the worker records FAILED with the message for that job, and the worker is
\* free for the next message.
FailureIsolation ==
    /\ [](escaped = {})
    /\ [][\A w \in Workers :
           /\ (task'[w].exc # task[w].exc /\ task'[w].exc # NoExc) =>
                 /\ task'[w].pc = "except"
                 /\ task'[w].job_id = task[w].job_id
           /\ (task[w].pc = "except" /\ task'[w] # task[w]) =>
                 /\ task'[w] = IdleTask
                 /\ db'[task[w].job_id].status = "FAILED"
                 /\ db'[task[w].job_id].error_message = task[w].exc.msg
                 /\ task[w].exc.msg # None
                 /\ \A j \in DOMAIN db : j # task[w].job_id => db'[j] = db[j]]_vars

\* a job failed in the embedding or indexing step and every worker is free
FailureIsolationWitness ==
    /\ \E j \in DOMAIN db :
          /\ db[j].status = "FAILED"
          /\ db[j].error_message \in {EncodeError, AddError, DuplicateError}
    /\ \A w \in Workers : task[w].pc = "idle"

\* the collection holds every chunk under its id, with its text and the url
AllIndexed(col, job_id, url, chunks) ==
    \A k \in 1..Len(chunks) :
        /\ ChunkId(job_id, k - 1) \in DOMAIN col
        /\ col[ChunkId(job_id, k - 1)] = [document |-> chunks[k], url |-> url]

\* C7: when a job becomes COMPLETED the index holds an entry for every chunk
\* of the text extracted for it, under ids job_id_0 .. job_id_(n-1), each with
\* the chunk's text and the job's url.
CompletedIsIndexed ==
    [][\A w \in Workers :
          (task[w].pc = "complete" /\ task'[w] # task[w]) =>
             /\ db'[task[w].job_id].status = "COMPLETED"
             /\ AllIndexed(collection', task[w].job_id, db'[task[w].job_id].url,
                           Chunks(task[w].content))]_vars

\* C8: a page without paragraph text does not fail the job: no chunk, no index
\* entry written, and the job becomes COMPLETED with no error_message.
EmptyTextCompletes ==
    [][\A w \in Workers :
          /\ (task[w].pc = "fetch" /\ task'[w].pc # "except"
                /\ task'[w] # task[w] /\ task'[w].content = << >>) =>
                task'[w].pc = "complete"
          /\ (task[w].pc = "complete" /\ task[w].content = << >>
                /\ task'[w] # task[w]) =>
                /\ Chunks(task[w].content) = << >>
                /\ task[w].written = {}
                /\ db'[task[w].job_id].status = "COMPLETED"
                /\ db'[task[w].job_id].error_message = None]_vars

\* ceil(a / b) for b > 0
Ceil(a, b) == -((-a) \div b)

\* C9 as stated: for text of length L the chunk count is
\* max(1, ceil((L-W)/S)+1) when L > 0 and 0 when L = 0.
ChunkCountFormula ==
    cDone => Len(cOut) = IF Len(cText) > 0
                         THEN Max(1, Ceil(Len(cText) - W, S) + 1)
                         ELSE 0

\* C9, amended: the chunk count is ceil(L/S), one chunk per offset 0, S, 2S, ..
\* below L; that is the stated count plus one when L > S and the last stride
\* starts inside the previous window (L mod S in 1..W-S).
ChunkCount ==
    cDone =>
      LET L == Len(cText)
          stated == IF L > 0 THEN Max(1, Ceil(L - W, S) + 1) ELSE 0
      IN  /\ Len(cOut) = Ceil(L, S)
          /\ Len(cOut) = stated + (IF L > S /\ (L % S) \in 1..(W - S) THEN 1 ELSE 0)

\* a text of 450 characters was cut into two chunks
ChunkCountWitness ==
    cDone /\ Len(cText) = 450 /\ Len(cOut) = 2

\* C10: the k-th chunk (k = 0, 1, ..) is the substring of the text that starts
\* at offset k*S, of length at most W; the offsets go up by S until the text is
\* exhausted.
ChunkOffsets ==
    cDone =>
      LET L == Len(cText) IN
      /\ \A k \in 1..Len(cOut) :
            /\ (k - 1) * S < L
            /\ Len(cOut[k]) = Min(W, L - (k - 1) * S)
            /\ Len(cOut[k]) <= W
            /\ \A i \in 1..Len(cOut[k]) : cOut[k][i] = cText[(k - 1) * S + i]
      /\ Len(cOut) * S >= L

\* a text was cut into three chunks, the last one shorter than the window
ChunkOffsetsWitness ==
    cDone /\ Len(cOut) = 3 /\ Len(cOut[1]) = W /\ Len(cOut[3]) < W

\* c[n:] : the sequence without its first n elements
Drop(c, n) == IF n >= Len(c) THEN << >> ELSE SubSeq(c, n + 1, Len(c))

\* the chunks put back together: the first chunk, then every later chunk
\* without the W-S characters it shares with its predecessor
RECURSIVE Rebuild(_, _)
Rebuild(chunks, k) ==
    IF k > Len(chunks) THEN << >>
    ELSE (IF k = 1 THEN chunks[1] ELSE Drop(chunks[k], W - S))
         \o Rebuild(chunks, k + 1)

\* C11: concatenating the chunks in order, each chunk after the first without
\* the W-S characters of the overlap, gives back the text exactly.
OverlapReconstructs ==
    cDone => /\ Len(Rebuild(cOut, 1)) = Len(cText)
             /\ \A i \in 1..Len(cText) : Rebuild(cOut, 1)[i] = cText[i]

\* a text of three chunks, the last shorter than the overlap, was rebuilt
OverlapReconstructsWitness ==
    /\ cDone /\ Len(cOut) = 3
    /\ Len(cOut[3]) < W - S
    /\ Rebuild(cOut, 1) = cText

NoDuplicates(l) == \A a, b \in 1..Len(l) : a # b => l[a] # l[b]

\* C13: a query with results calls the generator exactly once; a failed call
\* ends the query with a 500 and no answer, which is not the fixed-answer
\* response; a successful call returns the generated answer and the urls of
\* the results, each once.
GenerateOnce ==
    (qry.searched /\ qry.results # << >>) =>
       /\ qry.pc = "generate" => qry.llm_calls = 0
       /\ qry.pc = "done" =>
            /\ qry.llm_calls = 1
            /\ \/ /\ qry.response.code = 500
                  /\ qry.response.answer = None
                  /\ qry.response.source_urls = << >>
                  /\ qry.response.detail = GenerateFailure
               \/ /\ qry.response.code = 200
                  /\ qry.response.answer \in Answers
                  /\ NoDuplicates(qry.response.source_urls)
                  /\ {qry.response.source_urls[k] :
                         k \in 1..Len(qry.response.source_urls)}
                     = {collection[qry.results[k]].url :
                         k \in 1..Len(qry.results)}

\* an answer was generated from two results of the same url, cited once
GenerateOnceWitness ==
    /\ qry.pc = "done" /\ qry.response.code = 200
    /\ Len(qry.results) >= 2
    /\ Len(qry.response.source_urls) = 1
    /\ qry.response.answer \in Answers

\* C14: under every interleaving a ledger row is changed only by a worker
\* executing that job, and the execution leaves the job COMPLETED when its own
\* steps succeeded and FAILED when one of its own steps raised.
JobIndependence ==
    [][/\ \A j \in DOMAIN db :
             db'[j] # db[j] =>
                \E w \in Workers : task[w].job_id = j /\ task'[w] # task[w]
       /\ \A w \in Workers :
             (task[w].pc # "idle" /\ task'[w] # task[w]) =>
                /\ \A j \in DOMAIN db : j # task[w].job_id => db'[j] = db[j]
                /\ task[w].pc = "complete" =>
                      db'[task[w].job_id].status = "COMPLETED"
                /\ task[w].pc = "except" =>
                      db'[task[w].job_id].status = "FAILED"
                /\ task'[w].pc = "except" => task'[w].exc # NoExc]_vars

\* two jobs for different urls: one COMPLETED, the other FAILED
JobIndependenceWitness ==
    \E i, j \in DOMAIN db :
        /\ db[i].url # db[j].url
        /\ db[i].status = "COMPLETED" /\ db[j].status = "FAILED"
        /\ \A w \in Workers : task[w].pc = "idle"

\* the ids an execution passes to collection.add
TaskIds(w) == Ids(task[w].job_id, Len(Chunks(task[w].content)))

\* C15: chunk ids are job-scoped: the ids of one execution are pairwise
\* distinct, each carries its own job id and no other, executions of different
\* jobs have no id in common, and every index entry belongs to one job.
IdsJobScoped ==
    /\ \A w \in Workers :
          task[w].pc \in {"add", "complete"} =>
             LET ids == TaskIds(w) IN
             /\ Cardinality(ids) = Len(Chunks(task[w].content))
             /\ task[w].written \subseteq ids
             /\ \A id \in ids : \A j \in JobIds :
                   OfJob(id, j) <=> j = task[w].job_id
             /\ \A v \in Workers :
                   (/\ task[v].pc \in {"add", "complete"}
                    /\ task[v].job_id # task[w].job_id) => ids \cap TaskIds(v) = {}
    /\ \A id \in DOMAIN collection :
          Cardinality({j \in DOMAIN db : OfJob(id, j)}) = 1

\* two jobs have index entries, one of them two, and a worker has just
\* written the ids of its own job
IdsJobScopedWitness ==
    /\ \E a, b \in DOMAIN collection : \E i, j \in DOMAIN db :
          i # j /\ OfJob(a, i) /\ OfJob(b, j)
    /\ \E w \in Workers :
          task[w].pc = "complete" /\ Cardinality(task[w].written) = 2

\* C16: index writes are idempotent by id: a write of ids the index already
\* has is not an error, and after a write every id it wrote holds the text of
\* that write (one entry per id, the latest text).
IdempotentUpsert ==
    [][\A w \in Workers :
          (task[w].pc = "add" /\ task'[w] # task[w]) =>
             /\ task'[w].exc.msg # DuplicateError
             /\ task'[w].pc = "complete" =>
                   \A k \in 1..Len(Chunks(task[w].content)) :
                      LET id == ChunkId(task[w].job_id, k - 1) IN
                      /\ id \in DOMAIN collection'
                      /\ collection'[id].document = Chunks(task[w].content)[k]]_vars

\* C17: a recorded job that is PENDING or PROCESSING eventually is COMPLETED
\* or FAILED.
EventuallyTerminal ==
    \A j \in JobIds :
        (j \in DOMAIN db /\ db[j].status \in {"PENDING", "PROCESSING"})
        ~> (j \in DOMAIN db /\ db[j].status \in Terminal)

\* a job delivered once has been taken through to COMPLETED
EventuallyTerminalWitness ==
    \E j \in DOMAIN db :
        /\ db[j].status = "COMPLETED" /\ delivered[j] = 1
        /\ \A w \in Workers : task[w].pc = "idle"

\* C18: in every execution the commit of PROCESSING precedes the fetch and
\* every index write: an execution that is about to fetch, has fetched or has
\* written index entries belongs to a job whose ledger status is not PENDING.
ProcessingBeforeFetch ==
    \A w \in Workers :
        (task[w].pc = "fetch" \/ task[w].nFetch > 0 \/ task[w].written # {}) =>
            /\ task[w].job_id \in DOMAIN db
            /\ db[task[w].job_id].status # "PENDING"

\* an execution has fetched once and its job is PROCESSING
ProcessingBeforeFetchWitness ==
    \E w \in Workers :
        /\ task[w].nFetch = 1 /\ task[w].pc = "add"
        /\ db[task[w].job_id].status = "PROCESSING"

\* C19: every write to the index happens while the ledger status of the
\* writing job is PROCESSING.
WriteOnlyWhileProcessing ==
    [][\A w \in Workers :
          (task[w].pc = "add" /\ task'[w] # task[w] /\ collection' # collection)
             => db[task[w].job_id].status = "PROCESSING"]_vars

\* C20: an execution of process_url for a job id that has no ledger row
\* returns at once and changes nothing: it creates no row, leaves every row as
\* it is, never reaches the fetch, and no index entry bears its id.
OrphanNoEffect ==
    [][/\ \A w \in Workers :
            (task[w].pc = "begin" /\ task[w].job_id \notin DOMAIN db
               /\ task'[w] # task[w]) =>
                  /\ task'[w] = IdleTask
                  /\ db' = db /\ collection' = collection
                  /\ queue' = queue /\ escaped' = escaped
       /\ \A w \in Workers :
            task'[w].job_id = OrphanId =>
                task'[w].pc = "begin" /\ task'[w].nFetch = 0
       /\ OrphanId \notin DOMAIN db'
       /\ \A id \in DOMAIN collection' : ~OfJob(id, OrphanId)]_vars

\* the message without a row was delivered and its execution has returned,
\* while another job has a row
OrphanNoEffectWitness ==
    /\ OrphanId \in DOMAIN delivered /\ delivered[OrphanId] >= 1
    /\ \A w \in Workers : task[w].pc = "idle"
    /\ OrphanId \notin DOMAIN db
    /\ \E j \in DOMAIN db : db[j].status = "COMPLETED"

====
